---------------------------- MODULE Spec2Model ----------------------------
(* A model of metacom's protocol layer: the packet codec of                *)
(* lib/protocol.js and the channel coordinator of lib/channel.js.          *)
(*                                                                         *)
(* lib/protocol.js holds two generations of the codec one after the other; *)
(* the second one (lines 66-136) is the one the module exports last and    *)
(* the one the tests of test/protocol.js describe, and it is the one       *)
(* modelled here.                                                          *)
EXTENDS Integers, Sequences, FiniteSets, Bags, TLC

(***************************************************************************)
(* JavaScript values.  A value is a record tagged with its type, so that   *)
(* undefined, null, 0 and "" stay four different things.  A string is a    *)
(* sequence of one-character strings, so that concatenation and split are  *)
(* computed and not assumed.                                               *)
(***************************************************************************)
Undef == [t |-> "undefined"]
Null == [t |-> "null"]
NaN == [t |-> "NaN"]
Num(n) == [t |-> "number", v |-> n]
Str(s) == [t |-> "string", v |-> s]
Obj(o) == [t |-> "object", v |-> o]
\* A string the codec never takes apart (an error message, a status phrase, a
\* stack), kept whole: its text and the value interpolated into it.
Text(s, n) == [t |-> "text", v |-> s, n |-> n]
True == [t |-> "boolean", v |-> TRUE]
False == [t |-> "boolean", v |-> FALSE]
\* The outcome of a call that throws: what was thrown.
Thrown(what) == [t |-> "thrown", v |-> what]

\* JavaScript truthiness: undefined, null, NaN, 0 and "" are falsy.
Truthy(x) ==
  CASE x.t \in {"undefined", "null", "NaN"} -> FALSE
    [] x.t = "number" -> x.v # 0
    [] x.t = "string" -> x.v # <<>>
    [] OTHER -> TRUE

\* The words of the wire format, as strings of the model.
kCall == <<"c", "a", "l", "l">>
kCallback == <<"c", "a", "l", "l", "b", "a", "c", "k">>
kEvent == <<"e", "v", "e", "n", "t">>
kStream == <<"s", "t", "r", "e", "a", "m">>
kError == <<"e", "r", "r", "o", "r">>
kResult == <<"r", "e", "s", "u", "l", "t">>
kName == <<"n", "a", "m", "e">>
kSize == <<"s", "i", "z", "e">>
kStatus == <<"s", "t", "a", "t", "u", "s">>
kUndefined == <<"u", "n", "d", "e", "f", "i", "n", "e", "d">>
kNull == <<"n", "u", "l", "l">>

DigitChars == <<"0", "1", "2", "3", "4", "5", "6", "7", "8", "9">>

\* Number.prototype.toString of a non-negative integer.
RECURSIVE NatToChars(_)
NatToChars(n) ==
  IF n < 10 THEN <<DigitChars[n + 1]>>
  ELSE NatToChars(n \div 10) \o <<DigitChars[(n % 10) + 1]>>

IntToChars(n) == IF n < 0 THEN <<"-">> \o NatToChars(-n) ELSE NatToChars(n)

\* What a template literal `${x}` makes of a value.
ToChars(x) ==
  CASE x.t = "string" -> x.v
    [] x.t = "number" -> IntToChars(x.v)
    [] x.t = "undefined" -> kUndefined
    [] x.t = "null" -> kNull
    [] OTHER -> <<"?">>

IsDigit(c) == \E i \in 1..10 : DigitChars[i] = c
DigitValue(c) == (CHOOSE i \in 1..10 : DigitChars[i] = c) - 1

\* The longest prefix of s made of digits.
RECURSIVE DigitPrefix(_)
DigitPrefix(s) ==
  IF s = <<>> \/ ~IsDigit(Head(s)) THEN <<>>
  ELSE <<Head(s)>> \o DigitPrefix(Tail(s))

RECURSIVE DigitsToNat(_, _)
DigitsToNat(s, acc) ==
  IF s = <<>> THEN acc ELSE DigitsToNat(Tail(s), acc * 10 + DigitValue(Head(s)))

\* parseInt of a string: an optional sign, then the leading digits; NaN
\* when there is none.
ParseInt(s) ==
  LET neg == s # <<>> /\ Head(s) = "-"
      body == IF s # <<>> /\ Head(s) \in {"-", "+"} THEN Tail(s) ELSE s
      ds == DigitPrefix(body)
  IN IF ds = <<>> THEN NaN
     ELSE Num(IF neg THEN -DigitsToNat(ds, 0) ELSE DigitsToNat(ds, 0))

\* String.prototype.split on a one-character separator: the segments.
RECURSIVE SplitFrom(_, _, _)
SplitFrom(s, sep, cur) ==
  IF s = <<>> THEN <<cur>>
  ELSE IF Head(s) = sep THEN <<cur>> \o SplitFrom(Tail(s), sep, <<>>)
  ELSE SplitFrom(Tail(s), sep, Append(cur, Head(s)))

Split(s, sep) == SplitFrom(s, sep, <<>>)

\* Array destructuring: the i-th element as a string value, or undefined.
ItemAt(parts, i) == IF i <= Len(parts) THEN Str(parts[i]) ELSE Undef

(***************************************************************************)
(* Wire objects.  A JavaScript object is the sequence of its entries in    *)
(* key order (insertion order: none of the keys used here is an array      *)
(* index, the only keys JavaScript would move to the front).               *)
(***************************************************************************)
Entry(k, v) == [k |-> k, v |-> v]

HasKey(o, k) == \E i \in 1..Len(o) : o[i].k = k

\* o[k]: the value under k, undefined when the key is missing.
Get(o, k) ==
  IF HasKey(o, k) THEN o[CHOOSE i \in 1..Len(o) : o[i].k = k].v ELSE Undef

\* { ...o, [k]: v }: a present key keeps its place and takes the new value.
Put(o, k, v) ==
  IF HasKey(o, k)
  THEN [i \in 1..Len(o) |-> IF o[i].k = k THEN Entry(k, v) ELSE o[i]]
  ELSE Append(o, Entry(k, v))

\* The rest of a destructuring ({ k, ...data }): o without its key k.
RECURSIVE Rest(_, _)
Rest(o, k) ==
  IF o = <<>> THEN <<>>
  ELSE IF Head(o).k = k THEN Rest(Tail(o), k)
  ELSE <<Head(o)>> \o Rest(Tail(o), k)

\* Object.keys(o).at(0): the first key, or undefined.
FirstKey(o) == IF o = <<>> THEN Undef ELSE Str(o[1].k)

(***************************************************************************)
(* lib/protocol.js: serializer, serialize, deserializer, deserialize.      *)
(***************************************************************************)
\* The dynamic key of a call: `${iface}${ver ? `.${ver}` : ''}/${method}`.
CallKey(iface, ver, method) ==
  ToChars(iface)
    \o (IF Truthy(ver) THEN <<".">> \o ToChars(ver) ELSE <<>>)
    \o <<"/">> \o ToChars(method)

serializerCall(d) ==
  Put(<<Entry(kCall, d.callId)>>, CallKey(d.iface, d.ver, d.method), d.args)

serializerCallback(d) ==
  <<Entry(kCallback, d.callId), Entry(kResult, d.result)>>

serializerEvent(d) ==
  Put(<<Entry(kEvent, d.eventId)>>,
      ToChars(d.iface) \o <<"/">> \o ToChars(d.eventName), d.args)

serializerStream(d) ==
  <<Entry(kStream, d.streamId), Entry(kName, d.name),
    Entry(kSize, d.size), Entry(kStatus, d.status)>>

serializerError(d) ==
  <<Entry(kCallback, d.callId),
    Entry(kError, Obj([message |-> d.message, code |-> d.code]))>>

Kinds == {kCall, kCallback, kEvent, kStream, kError}

\* serializer and deserializer are object literals, so table[key] also finds
\* what they inherit from Object.prototype: its methods, here toString,
\* which gives '[object Object]' whatever it is called with, and __proto__,
\* which is Object.prototype itself and cannot be called.
kToString == <<"t", "o", "S", "t", "r", "i", "n", "g">>
kProto == <<"_", "_", "p", "r", "o", "t", "o", "_", "_">>
ObjectToString == Text("[object Object]", <<>>)

\* serialize(type, data): serializer[type]?.(data) ?? null.
serialize(type, d) ==
  CASE type = kCall -> Obj(serializerCall(d))
    [] type = kCallback -> Obj(serializerCallback(d))
    [] type = kEvent -> Obj(serializerEvent(d))
    [] type = kStream -> Obj(serializerStream(d))
    [] type = kError -> Obj(serializerError(d))
    [] type = kToString -> ObjectToString
    [] type = kProto -> Thrown("TypeError")
    [] OTHER -> Null

deserializerCall(p) ==
  LET data == Rest(p, kCall)
      target == FirstKey(data)
      parts == IF target = Undef THEN <<>> ELSE Split(target.v, "/")
      service == ItemAt(parts, 1)
      method == ItemAt(parts, 2)
      sparts == IF service = Undef THEN <<>> ELSE Split(service.v, ".")
      iface == ItemAt(sparts, 1)
      ver == ItemAt(sparts, 2)
  IN [callId |-> Get(p, kCall),
      iface |-> iface,
      method |-> method,
      ver |-> IF Truthy(ver) THEN ParseInt(ver.v) ELSE ver,
      args |-> IF target = Undef THEN Undef ELSE Get(data, target.v)]

deserializerCallback(p) ==
  [callId |-> Get(p, kCallback), result |-> Get(p, kResult)]

deserializerEvent(p) ==
  LET data == Rest(p, kEvent)
      target == FirstKey(data)
      parts == IF target = Undef THEN <<>> ELSE Split(target.v, "/")
  IN [eventId |-> Get(p, kEvent),
      iface |-> ItemAt(parts, 1),
      eventName |-> ItemAt(parts, 2),
      args |-> IF target = Undef THEN Undef ELSE Get(data, target.v)]

deserializerStream(p) ==
  [streamId |-> Get(p, kStream), name |-> Get(p, kName),
   size |-> Get(p, kSize), status |-> Get(p, kStatus)]

\* error?.message, error?.code
deserializerError(p) ==
  LET e == Get(p, kError)
  IN [callId |-> Get(p, kCallback),
      message |-> IF e.t = "object" THEN e.v.message ELSE Undef,
      code |-> IF e.t = "object" THEN e.v.code ELSE Undef]

\* deserialize(packet): null for a packet without a first key; a TypeError
\* when the first key names no deserializer (deserializer[type] is then
\* undefined and is called).
deserialize(p) ==
  LET type == IF Truthy(Get(p, kError)) THEN Str(kError) ELSE FirstKey(p)
  IN IF ~Truthy(type) THEN Null
     ELSE IF type.v = kToString
     THEN Obj([type |-> kToString, data |-> ObjectToString])
     ELSE IF type.v \notin Kinds THEN Thrown("TypeError")
     ELSE Obj([type |-> type.v,
               data |-> CASE type.v = kCall -> deserializerCall(p)
                          [] type.v = kCallback -> deserializerCallback(p)
                          [] type.v = kEvent -> deserializerEvent(p)
                          [] type.v = kStream -> deserializerStream(p)
                          [] type.v = kError -> deserializerError(p)])


(***************************************************************************)
(* Bounds of the model.                                                    *)
(***************************************************************************)
MaxSessions == 2
MaxEvents == 2
MaxCalls == 2
MaxSent == 2
MaxHandles == 1
MaxPending == 1
MaxStreamId == 1
MaxChunks == 1

StreamIds == 1..MaxStreamId
CallIds == 1..MaxCalls

\* Two channels that share the registry, one of each kind of transport: the
\* first over a persistent connection (WebSocket), the second a request and
\* its response (HTTP).
Channels == {"ws", "http"}
Tokens == {"tokenA", "tokenB"}
\* session.state.accountId as handed to initializeSession (data = {} has none).
AccountIds == {Undef, Str(<<"u", "7">>)}

VARIABLES
  sessions,    \* the registry (channel.js:32): token -> Session (0: no entry)
  heap,        \* the Session objects created so far; a Session is its index
  session,     \* channel.session: a Session, or 0 for null
  eventId,     \* channel.eventId
  streamId,    \* channel.streamId
  destroyed,   \* whether destroy() has run (the connection closed)
  closes,      \* 'close' notifications delivered to the Client's listeners
  sent,        \* what the channel handed to send(), in order
  created,     \* the init data of the Writable streams createStream made
  streams,     \* channel.streams: streamId -> Readable (0: no entry)
  handles,     \* the Readable streams made so far; a Readable is its index
  closing,     \* the streamHandler calls waiting for close() or terminate()
  calls,       \* the rpc() calls: where each one is and what it has done
  reading,     \* the resumeCookieSession calls waiting for auth.readSession()
  ret          \* the latest call of the Client Facade or destroy(), and its outcome

vars == <<sessions, heap, session, eventId, streamId, destroyed, closes,
          sent, created, streams, handles, closing, calls, reading, ret>>

\* channel.connection: set by the transport that extends Channel, for a
\* persistent connection only.
connection(ch) == ch = "ws"

NoRet == [op |-> "none"]

\* An rpc() call: pc is where it is ("idle": not made; "enter": waiting at
\* proc.enter(); "invoke": waiting for proc.invoke(); "done": returned;
\* "invalid": callHandler refused the packet and rpc() was not called);
\* context is the Context it built; gate, invoked, left and logs count what
\* it did to the procedure and to the log.
NoContext == [session |-> 0, accountId |-> Undef]
NoCall ==
  [pc |-> "idle", method |-> "", context |-> NoContext, gate |-> "none",
   invoked |-> 0, left |-> 0, logs |-> 0, outcome |-> [how |-> "none"]]

\* The packets sent so far, on all channels.
SentCount == Len(sent["ws"]) + Len(sent["http"])

\* The state of a server whose channels have just been constructed.
Constructed ==
  /\ sessions = [t \in Tokens |-> 0]
  /\ heap = <<>>
  /\ session = [ch \in Channels |-> 0]
  /\ eventId = [ch \in Channels |-> 0]
  /\ streamId = [ch \in Channels |-> 0]
  /\ destroyed = [ch \in Channels |-> FALSE]
  /\ closes = [ch \in Channels |-> 0]
  /\ sent = [ch \in Channels |-> <<>>]
  /\ created = [ch \in Channels |-> <<>>]
  /\ streams = [ch \in Channels |-> [id \in StreamIds |-> 0]]
  /\ handles = <<>>
  /\ closing = EmptyBag
  /\ calls = [ch \in Channels |-> [c \in CallIds |-> NoCall]]
  /\ reading = EmptyBag

Init == Constructed /\ ret = NoRet

(***************************************************************************)
(* Client Facade: session control (channel.js:76-105).  Each operation is  *)
(* a function of the registry, the Session objects and the channel's       *)
(* binding, and gives their new values and the value returned.             *)
(***************************************************************************)
SessionState(reg, hp, bound, value) ==
  [sessions |-> reg, heap |-> hp, session |-> bound, value |-> value]

\* sessions.delete(session.token) for a bound session.
Evict(reg, hp, bound) ==
  IF bound # 0 THEN [reg EXCEPT ![hp[bound].token] = 0] ELSE reg

\* initializeSession without line 77: the bound session is not evicted.
initializeSessionKeep(reg, hp, bound, ch, token, accountId) ==
  LET hp2 == Append(hp, [token |-> token, channel |-> ch, accountId |-> accountId])
      s == Len(hp2)
  IN SessionState([reg EXCEPT ![token] = s], hp2, s, True)

\* Client.initializeSession(token, data)
initializeSession(reg, hp, bound, ch, token, accountId) ==
  LET hp2 == Append(hp, [token |-> token, channel |-> ch, accountId |-> accountId])
      s == Len(hp2)
  IN SessionState([Evict(reg, hp, bound) EXCEPT ![token] = s], hp2, s, True)

\* finalizeSession evicting the entry of its argument, not that of the
\* channel's session.
finalizeSessionByToken(reg, hp, bound, token) ==
  IF reg[token] = 0 THEN SessionState(reg, hp, bound, False)
  ELSE IF bound = 0 THEN SessionState(reg, hp, bound, False)
  ELSE SessionState([reg EXCEPT ![token] = 0], hp, 0, True)

\* Client.finalizeSession(token)
finalizeSession(reg, hp, bound, token) ==
  IF reg[token] = 0 THEN SessionState(reg, hp, bound, False)
  ELSE IF bound = 0 THEN SessionState(reg, hp, bound, False)
  ELSE SessionState(Evict(reg, hp, bound), hp, 0, True)

\* Client.restoreSession(token); the Client's channel is set at construction
\* and never cleared, so the second test never fails.
restoreSession(reg, hp, bound, token) ==
  IF reg[token] = 0 THEN SessionState(reg, hp, bound, False)
  ELSE SessionState(reg, hp, reg[token], True)

ApplySession(ch, r, op, token) ==
  /\ sessions' = r.sessions
  /\ heap' = r.heap
  /\ session' = [session EXCEPT ![ch] = r.session]
  /\ ret' = [op |-> op, ch |-> ch, token |-> token, value |-> r.value]
  /\ UNCHANGED <<eventId, streamId, destroyed, closes, sent, created, streams,
                 handles, closing, calls, reading>>

InitializeSession(ch, token, accountId) ==
  /\ Len(heap) < MaxSessions
  /\ ApplySession(ch,
       initializeSession(sessions, heap, session[ch], ch, token, accountId),
       "initializeSession", token)

FinalizeSession(ch, token) ==
  ApplySession(ch, finalizeSession(sessions, heap, session[ch], token),
               "finalizeSession", token)

RestoreSession(ch, token) ==
  ApplySession(ch, restoreSession(sessions, heap, session[ch], token),
               "restoreSession", token)

(***************************************************************************)
(* Channel.error (channel.js:246-257).                                     *)
(***************************************************************************)
\* What send(packet, httpCode) is handed; `cause` keeps the arguments of the
\* error() call that built an error packet (none for the other packets).
NoCause == [t |-> "none"]
Sent(packet, httpCode, cause) ==
  [packet |-> packet, httpCode |-> httpCode, cause |-> cause]

\* An Error object.
Err(message, code, httpCode, stack) ==
  [t |-> "error", message |-> message, code |-> code, httpCode |-> httpCode,
   stack |-> stack]

\* http.STATUS_CODES[httpCode]: the phrases of the codes used here; undefined
\* for any other key.
STATUS_CODES(h) ==
  IF h.t # "number" THEN Undef
  ELSE CASE h.v = 200 -> Text("OK", <<>>)
         [] h.v = 400 -> Text("Bad Request", <<>>)
         [] h.v = 403 -> Text("Forbidden", <<>>)
         [] h.v = 404 -> Text("Not Found", <<>>)
         [] h.v = 408 -> Text("Request Timeout", <<>>)
         [] h.v = 409 -> Text("Conflict", <<>>)
         [] h.v = 500 -> Text("Internal Server Error", <<>>)
         [] h.v = 503 -> Text("Service Unavailable", <<>>)
         [] OTHER -> Undef

\* x < n and x > n for a number n, as JavaScript compares: null counts as 0,
\* and a value that is no number (undefined, a word such as 'ENOENT') is
\* neither less nor greater.
Less(x, n) == (x.t = "number" /\ x.v < n) \/ (x.t = "null" /\ 0 < n)
Greater(x, n) == (x.t = "number" /\ x.v > n) \/ (x.t = "null" /\ 0 > n)

\* pass with <= in place of <.
PassOffByOne(httpCode) == Less(httpCode, 501) \/ Greater(httpCode, 599)

\* const pass = httpCode < 500 || httpCode > 599
Pass(httpCode) == Less(httpCode, 500) \/ Greater(httpCode, 599)

\* if (!httpCode) httpCode = (error && error.httpCode) || code, with the
\* defaults code = 500, error = null, httpCode = null of the parameters.
HttpCode(code, error, httpCode) ==
  LET c == IF code = Undef THEN Num(500) ELSE code
  IN IF Truthy(httpCode) THEN httpCode
     ELSE IF error.t = "error" /\ Truthy(error.httpCode) THEN error.httpCode
     ELSE c

\* pass && error ? error.message : status || 'Unknown error'
ErrorMessage(code, error, httpCode) ==
  LET h == HttpCode(code, error, httpCode)
      status == STATUS_CODES(h)
  IN IF Pass(h) /\ error.t = "error" THEN error.message
     ELSE IF Truthy(status) THEN status
     ELSE Text("Unknown error", <<>>)

\* Channel.error(code, { callId, error, httpCode }): what it sends.
error(code, callId, err, httpCode) ==
  LET c == IF code = Undef THEN Num(500) ELSE code
      e == IF err = Undef THEN Null ELSE err
      packet == serialize(kError, [callId |-> callId,
                                   message |-> ErrorMessage(code, e, httpCode),
                                   code |-> c])
  IN Sent(packet, HttpCode(code, e, httpCode),
          [t |-> "error", code |-> code, error |-> e, httpCode |-> httpCode])

(***************************************************************************)
(* Events and outbound streams (channel.js:60-66, 261-289, 303-307).       *)
(***************************************************************************)
kClose == <<"c", "l", "o", "s", "e">>
EventNames == {<<"a", "/", "b">>, <<"p">>}
EventArgs == {Num(7)}
StreamNames == {Undef, Str(<<>>), Str(<<"f">>)}
StreamSizes == {Undef, Num(0), Num(1000)}

\* --this.eventId
NextEventId(id) == id - 1

\* --this.streamId
NextStreamId(id) == id - 1

\* sendEvent with this.eventId-- in place of --this.eventId.
sendEventPost(ch, id, name, args) ==
  IF ~connection(ch)
  THEN [eventId |-> id, out |-> <<>>, value |-> Thrown("Transport doesn't support events")]
  ELSE LET parts == Split(name, "/")
           packet == serialize(kEvent, [eventId |-> Num(id),
                                        iface |-> ItemAt(parts, 1),
                                        eventName |-> ItemAt(parts, 2),
                                        args |-> args])
       IN [eventId |-> NextEventId(id), out |-> <<Sent(packet, Undef, NoCause)>>,
           value |-> Undef]

\* Channel.sendEvent(name, args): the new eventId, what is sent, and the
\* value returned or thrown.
sendEvent(ch, id, name, args) ==
  IF ~connection(ch)
  THEN [eventId |-> id, out |-> <<>>, value |-> Thrown("Transport doesn't support events")]
  ELSE LET parts == Split(name, "/")
           id2 == NextEventId(id)
           packet == serialize(kEvent, [eventId |-> Num(id2),
                                        iface |-> ItemAt(parts, 1),
                                        eventName |-> ItemAt(parts, 2),
                                        args |-> args])
       IN [eventId |-> id2, out |-> <<Sent(packet, Undef, NoCause)>>, value |-> Undef]

\* emit without its test for 'close': every name goes to sendEvent.
emitAll(ch, id, name, args) == sendEvent(ch, id, name, args) @@ [local |-> 0]

\* Client.emit(name, data): 'close' goes to the Client's own listeners, any
\* other name to the peer.
emit(ch, id, name, args) ==
  IF name = kClose
  THEN [eventId |-> id, out |-> <<>>, value |-> Undef, local |-> 1]
  ELSE sendEvent(ch, id, name, args) @@ [local |-> 0]

\* Channel.createStream(name, size): the new streamId, the init data of the
\* Writable made, and the value returned or thrown.
createStream(ch, id, name, size) ==
  IF ~connection(ch)
  THEN [streamId |-> id, made |-> <<>>, value |-> Thrown("Transport doesn't support streams")]
  ELSE IF ~Truthy(name)
  THEN [streamId |-> id, made |-> <<>>, value |-> Thrown("Stream name is not provided")]
  ELSE IF ~Truthy(size)
  THEN [streamId |-> id, made |-> <<>>, value |-> Thrown("Stream size is not provided")]
  ELSE LET id2 == NextStreamId(id)
           initData == [streamId |-> id2, name |-> name, size |-> size]
       IN [streamId |-> id2, made |-> <<initData>>, value |-> Obj(initData)]

Emit(ch, name, args) ==
  LET r == emit(ch, eventId[ch], name, args)
  IN /\ closes[ch] - eventId[ch] < MaxEvents
     /\ eventId' = [eventId EXCEPT ![ch] = r.eventId]
     /\ sent' = [sent EXCEPT ![ch] = @ \o r.out]
     /\ closes' = [closes EXCEPT ![ch] = @ + r.local]
     /\ ret' = [op |-> "emit", ch |-> ch, name |-> name, value |-> r.value]
     /\ UNCHANGED <<sessions, heap, session, streamId, destroyed, created, streams,
                    handles, closing, calls, reading>>

CreateStream(ch, name, size) ==
  LET r == createStream(ch, streamId[ch], name, size)
  IN /\ -streamId[ch] < MaxEvents
     /\ streamId' = [streamId EXCEPT ![ch] = r.streamId]
     /\ created' = [created EXCEPT ![ch] = @ \o r.made]
     /\ ret' = [op |-> "createStream", ch |-> ch, name |-> name, size |-> size,
                value |-> r.value]
     /\ UNCHANGED <<sessions, heap, session, eventId, destroyed, closes, sent,
                    streams, handles, closing, calls, reading>>

\* Channel.destroy(): the registry after it.
destroy(reg, hp, bound) == Evict(reg, hp, bound)

Destroy(ch) ==
  LET e == emit(ch, eventId[ch], kClose, Undef)
  IN /\ ~destroyed[ch]
     /\ destroyed' = [destroyed EXCEPT ![ch] = TRUE]
     /\ eventId' = [eventId EXCEPT ![ch] = e.eventId]
     /\ sent' = [sent EXCEPT ![ch] = @ \o e.out]
     /\ closes' = [closes EXCEPT ![ch] = @ + e.local]
     /\ sessions' = destroy(sessions, heap, session[ch])
     /\ ret' = [op |-> "destroy", ch |-> ch, value |-> e.value]
     /\ UNCHANGED <<heap, session, streamId, created, streams, handles, closing,
                    calls, reading>>

(***************************************************************************)
(* Inbound streams (channel.js:150-163, 175-199).                          *)
(***************************************************************************)
kEnd == <<"e", "n", "d">>
kTerminate == <<"t", "e", "r", "m", "i", "n", "a", "t", "e">>

\* new Error(message)
NewError(message) == Err(message, Undef, Undef, Text(message.v, <<"@">> \o message.n))

\* The fields of a decoded stream packet: an init packet, the two status
\* packets, and a packet that is neither.
StreamFields ==
  {[name |-> Str(<<"f">>), size |-> Num(1000), status |-> Undef],
   [name |-> Undef, size |-> Undef, status |-> Str(kEnd)],
   [name |-> Undef, size |-> Undef, status |-> Str(kTerminate)],
   [name |-> Undef, size |-> Undef, status |-> Undef]}

\* name && typeof name === 'string' && Number.isSafeInteger(size)
IsInit(p) == Truthy(p.name) /\ p.name.t = "string" /\ p.size.t = "number"

\* Channel.streamHandler({ streamId, name, size, status }) up to its await:
\* what it does with the packet.
streamHandler(table, p) ==
  LET stream == table[p.streamId]
  IN IF IsInit(p)
     THEN IF stream # 0
          THEN [act |-> "error",
                error |-> NewError(Text("Stream is already initialized", p.name.v))]
          ELSE [act |-> "register"]
     ELSE IF stream = 0
     THEN [act |-> "error",
           error |-> NewError(Text("Stream is not initialized", NatToChars(p.streamId)))]
     ELSE IF p.status = Str(kEnd) THEN [act |-> "close", stream |-> stream]
     ELSE IF p.status = Str(kTerminate) THEN [act |-> "terminate", stream |-> stream]
     ELSE [act |-> "error", error |-> NewError(Text("Stream packet structure error", <<>>))]

\* new MetaReadable({ streamId, name, size })
Readable(p) ==
  [streamId |-> p.streamId, name |-> p.name, size |-> p.size, chunks |-> 0,
   status |-> "active"]

\* streamHandler on a channel, with at most maxHandles streams made and
\* maxPending calls waiting.
StreamHandlerWithin(ch, p, maxHandles, maxPending) ==
  LET r == streamHandler(streams[ch], p)
  IN /\ CASE r.act = "error" ->
              /\ SentCount < MaxSent
              /\ sent' = [sent EXCEPT ![ch] =
                   Append(@, error(Num(400), Num(p.streamId), r.error, Undef))]
              /\ UNCHANGED <<streams, handles, closing>>
          [] r.act = "register" ->
              /\ Len(handles) < maxHandles
              /\ handles' = Append(handles, Readable(p))
              /\ streams' = [streams EXCEPT ![ch][p.streamId] = Len(handles) + 1]
              /\ UNCHANGED <<sent, closing>>
          [] OTHER ->
              /\ BagCardinality(closing) < maxPending
              /\ closing' = closing (+) SetToBag({[ch |-> ch, streamId |-> p.streamId,
                                                   stream |-> r.stream, how |-> r.act]})
              /\ UNCHANGED <<sent, streams, handles>>
     /\ UNCHANGED <<sessions, heap, session, eventId, streamId, destroyed,
                    closes, created, calls, ret, reading>>

StreamHandler(ch, p) == StreamHandlerWithin(ch, p, MaxHandles, MaxPending)

\* The rest of streamHandler once close() or terminate() has completed:
\* this.streams.delete(streamId).
StreamHandled(c) ==
  /\ handles' = [handles EXCEPT ![c.stream].status =
                   IF c.how = "close" THEN "closed" ELSE "terminated"]
  /\ streams' = [streams EXCEPT ![c.ch][c.streamId] = 0]
  /\ closing' = closing (-) SetToBag({c})
  /\ UNCHANGED <<sessions, heap, session, eventId, streamId, destroyed,
                 closes, created, sent, calls, ret, reading>>

\* What Chunk.decode(data) gives: the stream id of a chunk, or a failure.
Chunks == [t : {"chunk"}, streamId : StreamIds] \cup {[t |-> "malformed"]}

\* binary addressing every error to correlation id 0, as its catch does.
binaryToZero(table, data) ==
  IF data.t = "malformed"
  THEN [act |-> "error", callId |-> Num(0),
        error |-> NewError(Text("Chunk decode error", <<>>))]
  ELSE IF table[data.streamId] # 0
  THEN [act |-> "push", stream |-> table[data.streamId]]
  ELSE [act |-> "error", callId |-> Num(0),
        error |-> NewError(Text("Stream is not initialized", NatToChars(data.streamId)))]

\* Channel.binary(data): what it does with the frame.
binary(table, data) ==
  IF data.t = "malformed"
  THEN [act |-> "error", callId |-> Num(0),
        error |-> NewError(Text("Chunk decode error", <<>>))]
  ELSE IF table[data.streamId] # 0
  THEN [act |-> "push", stream |-> table[data.streamId]]
  ELSE [act |-> "error", callId |-> Num(data.streamId),
        error |-> NewError(Text("Stream is not initialized", NatToChars(data.streamId)))]

Binary(ch, data) ==
  LET r == binary(streams[ch], data)
  IN /\ IF r.act = "push"
        THEN /\ handles[r.stream].chunks < MaxChunks
             /\ handles' = [handles EXCEPT ![r.stream].chunks = @ + 1]
             /\ UNCHANGED sent
        ELSE /\ SentCount < MaxSent
             /\ sent' = [sent EXCEPT ![ch] =
                  Append(@, error(Num(400), r.callId, r.error, Undef))]
             /\ UNCHANGED handles
     /\ UNCHANGED <<sessions, heap, session, eventId, streamId, destroyed,
                    closes, created, streams, closing, calls, ret, reading>>

(***************************************************************************)
(* RPC invocation (channel.js:34-41, 201-244).                             *)
(***************************************************************************)
\* server.application.getMethod(iface, ver, method): the procedures of the
\* application, here two of interface auth, version 1; none for any other
\* name.
NoProc == [access |-> "none"]
getMethod(method) ==
  CASE method = "signIn" -> [access |-> "public"]
    [] method = "profile" -> [access |-> "session"]
    [] OTHER -> NoProc

Methods == {"signIn", "profile", "missing"}

\* How proc.invoke(context, args) ends: it returns a value, returns an Error,
\* or throws one.
Outcomes ==
  {[how |-> "return", value |-> Obj(<<Entry(kName, Num(1))>>)],
   [how |-> "return",
    value |-> Err(Text("Invalid email", <<>>), Num(400), Undef, Text("at signIn", <<>>))],
   [how |-> "throw",
    value |-> Err(Text("Timeout reached", <<>>), Undef, Undef, Text("at timeout", <<>>))],
   [how |-> "throw",
    value |-> Err(Text("db: connection refused", <<>>), Undef, Undef, Text("at query", <<>>))],
   [how |-> "throw",
    value |-> Err(Text("Name is taken", <<>>), Num(409), Undef, Text("at signUp", <<>>))]}

\* new Context(channel): session = channel.session || null.
Context(bound) == [session |-> bound, accountId |-> Undef]

\* this.session?.state?.accountId
AccountId(hp, bound) == IF bound = 0 THEN Undef ELSE hp[bound].accountId

\* The access test with the test of the session inverted.
DeniedInverted(bound, proc) == bound # 0 /\ proc.access # "public"

\* !this.session && proc.access !== 'public'
Denied(bound, proc) == bound = 0 /\ proc.access # "public"

\* rpc() from its start to its first await: the response it sends, if it
\* returns at once, and the call as it stands.
rpcStart(call, callId, method, bound) ==
  LET proc == getMethod(method)
      made == [call EXCEPT !.method = method]
  IN IF proc = NoProc
     THEN [out |-> <<error(Num(404), Num(callId), Undef, Undef)>>,
           call |-> [made EXCEPT !.pc = "done"]]
     ELSE IF Denied(bound, proc)
     THEN [out |-> <<error(Num(403), Num(callId), Undef, Undef)>>,
           call |-> [made EXCEPT !.pc = "done", !.context = Context(bound)]]
     ELSE [out |-> <<>>,
           call |-> [made EXCEPT !.pc = "enter", !.context = Context(bound),
                                 !.gate = "waiting"]]

\* rpc() going on to invoke after a rejected enter().
rpcEnteredAnyway(call, callId, entered, accountId) ==
  [out |-> IF entered THEN <<>> ELSE <<error(Num(503), Num(callId), Undef, Undef)>>,
   call |-> [call EXCEPT !.pc = "invoke",
                         !.gate = IF entered THEN "entered" ELSE "rejected",
                         !.context.accountId = accountId,
                         !.invoked = @ + 1]]

\* rpc() from the end of proc.enter() to the await of proc.invoke().
rpcEntered(call, callId, entered, accountId) ==
  IF ~entered
  THEN [out |-> <<error(Num(503), Num(callId), Undef, Undef)>>,
        call |-> [call EXCEPT !.pc = "done", !.gate = "rejected"]]
  ELSE [out |-> <<>>,
        call |-> [call EXCEPT !.pc = "invoke", !.gate = "entered",
                              !.context.accountId = accountId,
                              !.invoked = @ + 1]]

\* rpcAnswer without the return after the error() of a returned Error: the
\* callback is sent as well.
rpcAnswerNoReturn(callId, o) ==
  IF o.how = "throw"
  THEN LET e == IF o.value.message = Text("Timeout reached", <<>>)
                THEN [o.value EXCEPT !.code = Num(408), !.httpCode = Num(408)]
                ELSE o.value
       IN [out |-> <<error(e.code, Num(callId), e, Undef)>>, logs |-> 0]
  ELSE LET callback == Sent(serialize(kCallback, [callId |-> Num(callId),
                                                  result |-> o.value]),
                            Undef, NoCause)
       IN IF o.value.t = "error"
          THEN [out |-> <<error(o.value.code, Num(callId), o.value,
                                IF Truthy(o.value.httpCode) THEN o.value.httpCode
                                ELSE Num(200)),
                          callback>>,
                logs |-> 1]
          ELSE [out |-> <<callback>>, logs |-> 1]

\* rpcAnswer without the test for 'Timeout reached' in its catch.
rpcAnswerNoRemap(callId, o) ==
  IF o.how = "throw"
  THEN [out |-> <<error(o.value.code, Num(callId), o.value, Undef)>>, logs |-> 0]
  ELSE IF o.value.t = "error"
  THEN [out |-> <<error(o.value.code, Num(callId), o.value,
                        IF Truthy(o.value.httpCode) THEN o.value.httpCode
                        ELSE Num(200))>>,
        logs |-> 0]
  ELSE [out |-> <<Sent(serialize(kCallback, [callId |-> Num(callId),
                                             result |-> o.value]),
                       Undef, NoCause)>>,
        logs |-> 1]

\* What rpc() sends once proc.invoke() has ended, and the lines it logs.
rpcAnswer(callId, o) ==
  IF o.how = "throw"
  THEN LET e == IF o.value.message = Text("Timeout reached", <<>>)
                THEN [o.value EXCEPT !.code = Num(408), !.httpCode = Num(408)]
                ELSE o.value
       IN [out |-> <<error(e.code, Num(callId), e, Undef)>>, logs |-> 0]
  ELSE IF o.value.t = "error"
  THEN [out |-> <<error(o.value.code, Num(callId), o.value,
                        IF Truthy(o.value.httpCode) THEN o.value.httpCode
                        ELSE Num(200))>>,
        logs |-> 0]
  ELSE [out |-> <<Sent(serialize(kCallback, [callId |-> Num(callId),
                                             result |-> o.value]),
                       Undef, NoCause)>>,
        logs |-> 1]

\* rpc() with proc.leave() after the try statement, not in its finally.
rpcInvokedNoFinally(call, callId, o) ==
  LET a == rpcAnswer(callId, o)
  IN [out |-> a.out,
      call |-> [call EXCEPT !.pc = "done", !.outcome = o,
                            !.left = IF o.how = "throw" THEN @ ELSE @ + 1,
                            !.logs = @ + a.logs]]

\* rpc() from the end of proc.invoke() to its return: leave() in the finally
\* clause, then the response.
rpcInvoked(call, callId, o) ==
  LET a == rpcAnswer(callId, o)
  IN [out |-> a.out,
      call |-> [call EXCEPT !.pc = "done", !.outcome = o, !.left = @ + 1,
                            !.logs = @ + a.logs]]

\* The calls made so far, on all channels.
CallCount ==
  Cardinality({x \in Channels \X CallIds : calls[x[1]][x[2]].pc # "idle"})

ApplyRpc(ch, c, r) ==
  /\ calls' = [calls EXCEPT ![ch][c] = r.call]
  /\ sent' = [sent EXCEPT ![ch] = @ \o r.out]
  /\ UNCHANGED <<sessions, heap, session, eventId, streamId, destroyed, closes,
                 created, streams, handles, closing, ret, reading>>

\* this.rpc(callId, iface, ver, method, args) for a call that passed the
\* tests of callHandler.  The peer numbers its calls 1, 2, ... on each
\* channel.
Rpc(ch, c, method) ==
  /\ calls[ch][c].pc = "idle"
  /\ \A b \in 1..(c - 1) : calls[ch][b].pc # "idle"
  /\ CallCount < MaxCalls
  /\ ApplyRpc(ch, c, rpcStart(calls[ch][c], c, method, session[ch]))

\* proc.enter() ends: the gate lets the call in, or rejects it.
Entered(ch, c, entered) ==
  /\ calls[ch][c].pc = "enter"
  /\ ApplyRpc(ch, c, rpcEntered(calls[ch][c], c, entered,
                                AccountId(heap, session[ch])))

\* proc.invoke(context, args) ends.
Invoked(ch, c, o) ==
  /\ calls[ch][c].pc = "invoke"
  /\ ApplyRpc(ch, c, rpcInvoked(calls[ch][c], c, o))

RpcNext ==
  \/ \E ch \in Channels, c \in CallIds, method \in Methods : Rpc(ch, c, method)
  \/ \E ch \in Channels, c \in CallIds, entered \in BOOLEAN : Entered(ch, c, entered)
  \/ \E ch \in Channels, c \in CallIds, o \in Outcomes : Invoked(ch, c, o)

\* Stream packets and binary frames come in over a persistent connection:
\* the transports without one carry no streams (as getStream and
\* createStream say of them).
StreamChannels == {ch \in Channels : connection(ch)}

StreamNext ==
  \/ \E ch \in StreamChannels, id \in StreamIds, f \in StreamFields :
       StreamHandler(ch, [streamId |-> id] @@ f)
  \/ \E c \in BagToSet(closing) : StreamHandled(c)
  \/ \E ch \in StreamChannels, data \in Chunks : Binary(ch, data)

SessionNext ==
  \/ \E ch \in Channels, token \in Tokens :
       \/ \E a \in AccountIds : InitializeSession(ch, token, a)
       \/ FinalizeSession(ch, token)
       \/ RestoreSession(ch, token)
  \/ \E ch \in Channels : Destroy(ch)

EventNext ==
  \E ch \in Channels :
    \/ \E name \in EventNames \cup {kClose}, args \in EventArgs : Emit(ch, name, args)
    \/ \E name \in StreamNames, size \in StreamSizes : CreateStream(ch, name, size)

\* The arguments error() is called with, by the channel itself and by the
\* transports that extend it.
ErrorCodes == {Undef, Num(400), Num(503)}
ErrorObjects ==
  {Null} \cup
  {Err(m[1], Undef, h, m[2]) :
     m \in {<<Text("db: connection refused", <<>>), Text("at query (db.js:1)", <<>>)>>,
            <<Text("Invalid email", <<>>), Text("at signIn (auth.js:2)", <<>>)>>},
     h \in {Undef, Num(404), Num(500)}}
ExplicitHttpCodes == {Null, Num(200)}

\* this.error(code, { callId, error, httpCode })
ChannelError(ch, code, callId, err, httpCode) ==
  /\ SentCount < MaxSent
  /\ sent' = [sent EXCEPT ![ch] = Append(@, error(code, callId, err, httpCode))]
  /\ UNCHANGED <<sessions, heap, session, eventId, streamId, destroyed, closes,
                 created, streams, handles, closing, calls, ret, reading>>

ErrorNext ==
  \E ch \in Channels, code \in ErrorCodes, err \in ErrorObjects,
     httpCode \in ExplicitHttpCodes :
    ChannelError(ch, code, Num(1), err, httpCode)

SpecSession == Init /\ [][SessionNext]_vars

SpecError == Init /\ [][ErrorNext]_vars

SpecStream == Init /\ [][StreamNext]_vars

\* The channels after the application has started a session on some of
\* them: initializeSession applied to the state after construction.
InitRpc ==
  \E bound \in SUBSET Channels :
    LET ws == IF "ws" \in bound
              THEN initializeSession([t \in Tokens |-> 0], <<>>, 0, "ws", "tokenA",
                                     Str(<<"u", "7">>))
              ELSE SessionState([t \in Tokens |-> 0], <<>>, 0, Undef)
        http == IF "http" \in bound
                THEN initializeSession(ws.sessions, ws.heap, 0, "http", "tokenB", Undef)
                ELSE SessionState(ws.sessions, ws.heap, 0, Undef)
    IN /\ sessions = http.sessions
       /\ heap = http.heap
       /\ session = [ch \in Channels |-> IF ch = "ws" THEN ws.session ELSE http.session]
       /\ eventId = [ch \in Channels |-> 0]
       /\ streamId = [ch \in Channels |-> 0]
       /\ destroyed = [ch \in Channels |-> FALSE]
       /\ closes = [ch \in Channels |-> 0]
       /\ sent = [ch \in Channels |-> <<>>]
       /\ created = [ch \in Channels |-> <<>>]
       /\ streams = [ch \in Channels |-> [id \in StreamIds |-> 0]]
       /\ handles = <<>>
       /\ closing = EmptyBag
       /\ calls = [ch \in Channels |-> [c \in CallIds |-> NoCall]]
       /\ reading = EmptyBag
       /\ ret = NoRet

SpecRpc == InitRpc /\ [][RpcNext]_vars

SpecEvent == Init /\ [][EventNext]_vars


(***************************************************************************)
(* Session lifecycle.                                                      *)
(***************************************************************************)
\* The token of the session a channel is bound to.
BoundToken(ch) == heap[session[ch]].token

\* C4: initializeSession(tokenB) on a channel bound to the session its own
\* initializeSession(tokenA) made, tokenA # tokenB, leaves the registry with
\* no entry for tokenA and with an entry for tokenB, which is the session the
\* channel is now bound to; and initializeSession always returns true.
C4_InitializeTwice ==
  [][\A ch \in Channels, tB \in Tokens, a \in AccountIds :
       InitializeSession(ch, tB, a) =>
         /\ ret'.value = True
         /\ (/\ session[ch] # 0
             /\ heap[session[ch]].channel = ch
             /\ BoundToken(ch) # tB)
            => /\ sessions'[BoundToken(ch)] = 0
               /\ sessions'[tB] # 0
               /\ session'[ch] = sessions'[tB]
               /\ heap'[session'[ch]].token = tB]_vars

\* C4 witness: the two latest sessions were made by the same channel under
\* different tokens, the second by the call that has just returned.
C4_Witness ==
  /\ ret.op = "initializeSession"
  /\ Len(heap) >= 2
  /\ heap[Len(heap)].channel = ret.ch
  /\ heap[Len(heap) - 1].channel = ret.ch
  /\ heap[Len(heap) - 1].token # ret.token
  /\ session[ret.ch] = Len(heap)
  /\ sessions[heap[Len(heap) - 1].token] = 0

\* C8: finalizeSession(token) returns false and changes neither the registry
\* nor the binding when token has no entry or the channel is unbound;
\* otherwise it returns true, removes the entry of the channel's current
\* session (the entry of token stays when that is another one) and unbinds.
C8_Finalize ==
  [][\A ch \in Channels, token \in Tokens :
       FinalizeSession(ch, token) =>
         IF sessions[token] = 0 \/ session[ch] = 0
         THEN /\ ret'.value = False
              /\ sessions' = sessions
              /\ session' = session
         ELSE /\ ret'.value = True
              /\ sessions' = [sessions EXCEPT ![BoundToken(ch)] = 0]
              /\ BoundToken(ch) # token => sessions'[token] = sessions[token]
              /\ session' = [session EXCEPT ![ch] = 0]]_vars

\* C8 witness: a finalizeSession(token) that succeeded and left the entry of
\* its own argument in the registry.
C8_Witness ==
  /\ ret.op = "finalizeSession"
  /\ ret.value = True
  /\ session[ret.ch] = 0
  /\ sessions[ret.token] # 0

\* C9: destroy() notifies the Client's listeners of 'close' once, sends
\* nothing to the peer and does not throw, on a transport with a connection
\* or without; the token of a bound session has no registry entry afterwards.
C9_Destroy ==
  [][\A ch \in Channels :
       Destroy(ch) =>
         /\ closes'[ch] = closes[ch] + 1
         /\ sent' = sent
         /\ eventId' = eventId
         /\ ret'.value = Undef
         /\ session[ch] # 0 => sessions'[BoundToken(ch)] = 0]_vars

\* C9 witness: a channel without a connection, bound to a session, destroyed.
C9_Witness ==
  /\ ret.op = "destroy"
  /\ ~connection(ret.ch)
  /\ closes[ret.ch] = 1
  /\ session[ret.ch] # 0
  /\ sessions[BoundToken(ret.ch)] = 0

(***************************************************************************)
(* Server-assigned ids.                                                    *)
(***************************************************************************)
IsEventPacket(e) == e.packet.t = "object" /\ FirstKey(e.packet.v) = Str(kEvent)

EventsSent(ch) == SelectSeq(sent[ch], IsEventPacket)

\* C5: on every channel the k-th event packet sent has eventId -k and the
\* k-th stream created has streamId -k, and each counter is minus the number
\* of ids it has given out: a call that throws has not moved it.
C5_ServerIds ==
  \A ch \in Channels :
    /\ eventId[ch] = -Len(EventsSent(ch))
    /\ \A k \in 1..Len(EventsSent(ch)) :
         Get(EventsSent(ch)[k].packet.v, kEvent) = Num(-k)
    /\ streamId[ch] = -Len(created[ch])
    /\ \A k \in 1..Len(created[ch]) : created[ch][k].streamId = -k

\* C5 witness: two events sent and two streams created on a channel, and the
\* latest call threw.
C5_Witness ==
  /\ ret.op \in {"emit", "createStream"}
  /\ ret.value.t = "thrown"
  /\ \E ch \in Channels : eventId[ch] = -2 /\ streamId[ch] = -2


(***************************************************************************)
(* Error packets.                                                          *)
(***************************************************************************)
\* The error packets a channel has sent.
ErrorsSent == {e \in UNION {{sent[ch][i] : i \in 1..Len(sent[ch])} : ch \in Channels} :
                 e.cause.t = "error"}

\* The message an error packet carries.
PacketMessage(e) == Get(e.packet.v, kError).v.message

\* The effective httpCode as the claim defines it: the explicit httpCode,
\* else the error's own, else the code supplied, else 500.
EffectiveHttpCode(c) ==
  IF c.httpCode.t = "number" /\ c.httpCode.v # 0 THEN c.httpCode
  ELSE IF c.error.t = "error" /\ c.error.httpCode.t = "number"
          /\ c.error.httpCode.v # 0 THEN c.error.httpCode
  ELSE IF c.code # Undef THEN c.code
  ELSE Num(500)

In5xx(h) == h.t = "number" /\ h.v >= 500 /\ h.v <= 599
Outside5xx(h) == h.t = "number" /\ (h.v < 500 \/ h.v > 599)

GenericPhrase(h) ==
  IF STATUS_CODES(h) = Undef THEN Text("Unknown error", <<>>) ELSE STATUS_CODES(h)

\* Two error() calls whose errors differ at most in message and stack.
SameButDetail(c, d) ==
  /\ c.code = d.code
  /\ c.httpCode = d.httpCode
  /\ c.error.t = d.error.t
  /\ c.error.t = "error" =>
       c.error.code = d.error.code /\ c.error.httpCode = d.error.httpCode

\* C10: an error packet whose effective httpCode is in 500..599 carries the
\* generic phrase of that code, the same as any other packet built from an
\* error that differs only in message or stack; one whose effective httpCode
\* is a number outside 500..599, built from an error, carries that error's
\* message.
C10_ErrorMessage ==
  \A e \in ErrorsSent :
    LET h == EffectiveHttpCode(e.cause)
    IN /\ e.httpCode = h
       /\ In5xx(h) =>
            /\ PacketMessage(e) = GenericPhrase(h)
            /\ \A f \in ErrorsSent :
                 SameButDetail(e.cause, f.cause) => PacketMessage(f) = PacketMessage(e)
       /\ (Outside5xx(h) /\ e.cause.error.t = "error") =>
            PacketMessage(e) = e.cause.error.message

\* C10 witness: two packets in 500..599 built from errors with different
\* messages, and then the same phrase.
C10_Witness ==
  \E e, f \in ErrorsSent :
    /\ In5xx(EffectiveHttpCode(e.cause))
    /\ SameButDetail(e.cause, f.cause)
    /\ e.cause.error.t = "error"
    /\ e.cause.error.message # f.cause.error.message
    /\ PacketMessage(e) = PacketMessage(f)


(***************************************************************************)
(* The codec applied to field sets (protocol.js:68-129).                   *)
(***************************************************************************)
Ifaces == {Str(<<"a", "u", "t", "h">>), Str(<<"d", "b">>)}
Names == {Str(<<"s", "i", "g", "n", "I", "n">>), Str(<<"g", "e", "t">>)}
Vers == {Undef, Num(0), Num(1), Num(12)}
Payloads == {Obj(<<>>), Obj(<<Entry(<<"x">>, Num(1))>>)}
Messages == {Text("Not Found", <<>>), Text("Invalid email", <<>>)}

\* The field sets of each kind of packet.
FieldSets(type) ==
  CASE type = kCall ->
         [callId : {Num(c) : c \in CallIds}, iface : Ifaces, ver : Vers,
          method : Names, args : Payloads]
    [] type = kCallback -> [callId : {Num(c) : c \in CallIds}, result : Payloads]
    [] type = kEvent ->
         [eventId : {Num(-c) : c \in 1..MaxEvents}, iface : Ifaces,
          eventName : Names, args : Payloads]
    [] type = kStream ->
         [streamId : {Num(i) : i \in StreamIds}, name : {Str(<<"f">>)},
          size : {Num(1000)}, status : {Undef}]
         \cup [streamId : {Num(i) : i \in StreamIds}, name : {Undef},
               size : {Undef}, status : {Str(kEnd), Str(kTerminate)}]
    [] type = kError ->
         [callId : {Num(c) : c \in CallIds}, message : Messages,
          code : {Num(404), Num(400)}]

InitCodec ==
  /\ Constructed
  /\ \E type \in Kinds : \E data \in FieldSets(type) :
       ret = [op |-> "input", type |-> type, data |-> data]

\* serialize(type, data)
Serialize ==
  /\ ret.op = "input"
  /\ ret' = [op |-> "serialize", type |-> ret.type, data |-> ret.data,
             packet |-> serialize(ret.type, ret.data)]
  /\ UNCHANGED <<sessions, heap, session, eventId, streamId, destroyed, closes,
                 sent, created, streams, handles, closing, calls, reading>>

\* deserialize(packet) of the packet serialize made.
Deserialize ==
  /\ ret.op = "serialize"
  /\ ret.packet.t = "object"
  /\ ret' = [op |-> "deserialize", type |-> ret.type, data |-> ret.data,
             packet |-> ret.packet, value |-> deserialize(ret.packet.v)]
  /\ UNCHANGED <<sessions, heap, session, eventId, streamId, destroyed, closes,
                 sent, created, streams, handles, closing, calls, reading>>

CodecNext == Serialize \/ Deserialize

SpecCodec == InitCodec /\ [][CodecNext]_vars

\* C6: for every kind and every field set of it, deserialize(serialize(K, F))
\* is { type: K, data: F }; a call with a version decodes to the same
\* integer, and a call without one has the key 'iface/method' and decodes to
\* no version.
C6_RoundTrip ==
  /\ ret.op = "deserialize" =>
       /\ ret.value = Obj([type |-> ret.type, data |-> ret.data])
       /\ ret.type = kCall => ret.value.v.data.ver = ret.data.ver
  /\ (ret.op \in {"serialize", "deserialize"} /\ ret.type = kCall
        /\ ret.data.ver = Undef) =>
       FirstKey(Rest(ret.packet.v, kCall)) =
         Str(ret.data.iface.v \o <<"/">> \o ret.data.method.v)

(***************************************************************************)
(* Calls.                                                                  *)
(***************************************************************************)
\* What a channel has sent with callback id: the responses to call id.
Responses(ch, id) ==
  LET To(e) == e.packet.t = "object" /\ Get(e.packet.v, kCallback) = Num(id)
  IN SelectSeq(sent[ch], To)

\* e is an error packet { callback: id, error: { code, ... } }.
IsErrorTo(e, id, code) ==
  /\ e.packet.t = "object"
  /\ Get(e.packet.v, kCallback) = Num(id)
  /\ Get(e.packet.v, kError).t = "object"
  /\ Get(e.packet.v, kError).v.code = Num(code)

\* The only response to call id is an error packet with this code.
OnlyError(ch, id, code) ==
  Len(Responses(ch, id)) = 1 /\ IsErrorTo(Responses(ch, id)[1], id, code)

Made == {x \in Channels \X CallIds : calls[x[1]][x[2]].pc # "idle"}

\* C1: a call of a method the registry does not know is answered by one
\* error packet with code 404 and nothing else; a call of a procedure that is
\* not public, on a channel without a session, by one error packet with code
\* 403, the procedure neither entered nor invoked; a call whose invocation
\* returned a value r that is no error by { callback: c, result: r } and
\* nothing else, with one line logged.
C1_CallResponses ==
  \A x \in Made :
    LET ch == x[1]
        c == x[2]
        call == calls[ch][c]
        proc == getMethod(call.method)
    IN /\ proc = NoProc =>
            OnlyError(ch, c, 404) /\ call.gate = "none" /\ call.invoked = 0
       /\ (proc # NoProc /\ proc.access # "public" /\ call.context.session = 0) =>
            OnlyError(ch, c, 403) /\ call.gate = "none" /\ call.invoked = 0
       /\ (call.outcome.how = "return" /\ call.outcome.value.t # "error") =>
            /\ Len(Responses(ch, c)) = 1
            /\ Responses(ch, c)[1].packet =
                 Obj(<<Entry(kCallback, Num(c)), Entry(kResult, call.outcome.value)>>)
            /\ call.logs = 1

\* C1 witness: one call refused with 403 and another answered with its
\* result.
C1_Witness ==
  \E x, y \in Made :
    /\ getMethod(calls[x[1]][x[2]].method).access = "session"
    /\ calls[x[1]][x[2]].context.session = 0
    /\ OnlyError(x[1], x[2], 403)
    /\ calls[y[1]][y[2]].outcome.how = "return"
    /\ calls[y[1]][y[2]].outcome.value.t = "object"
    /\ calls[y[1]][y[2]].logs = 1

\* C2: a call has left the gate at most once, only after entering it and
\* only once its invocation has ended, and a call that has returned has left
\* it exactly when it entered it; so the leaves never outnumber the entries,
\* and equal them once no call is outstanding.
C2_EnterLeave ==
  LET Entries == Cardinality({x \in Made : calls[x[1]][x[2]].gate = "entered"})
      Leaves == Cardinality({x \in Made : calls[x[1]][x[2]].left > 0})
  IN /\ \A x \in Made :
          LET call == calls[x[1]][x[2]]
          IN /\ call.left <= 1
             /\ call.left = 1 => call.gate = "entered" /\ call.pc = "done"
             /\ (call.pc = "done" /\ call.gate = "entered") => call.left = 1
     /\ Leaves <= Entries
     /\ (\A x \in Made : calls[x[1]][x[2]].pc = "done") => Leaves = Entries

\* C2 witness: every call has returned; one threw a timeout after entering
\* the gate and has left it, another was rejected at the gate.
C2_Witness ==
  /\ \A x \in Made : calls[x[1]][x[2]].pc = "done"
  /\ \E x, y \in Made :
       /\ calls[x[1]][x[2]].outcome.how = "throw"
       /\ calls[x[1]][x[2]].outcome.value.message = Text("Timeout reached", <<>>)
       /\ calls[x[1]][x[2]].left = 1
       /\ calls[y[1]][y[2]].gate = "rejected"
       /\ calls[y[1]][y[2]].left = 0

\* C7: a call rejected at the gate is answered by one error packet with code
\* 503 and its callId, and its procedure is never invoked.
C7_GateRejects ==
  \A x \in Made :
    calls[x[1]][x[2]].gate = "rejected" =>
      /\ OnlyError(x[1], x[2], 503)
      /\ calls[x[1]][x[2]].invoked = 0
      /\ calls[x[1]][x[2]].pc = "done"

\* C7 witness: a call rejected at the gate.
C7_Witness ==
  \E x \in Made :
    calls[x[1]][x[2]].gate = "rejected" /\ OnlyError(x[1], x[2], 503)

(***************************************************************************)
(* Inbound streams.                                                        *)
(***************************************************************************)
InitFields == [name |-> Str(<<"f">>), size |-> Num(1000), status |-> Undef]

\* sent[ch] has grown by one error packet addressed to id with code 400 and
\* this message.
SentError(ch, id, message) ==
  /\ Len(sent'[ch]) = Len(sent[ch]) + 1
  /\ SubSeq(sent'[ch], 1, Len(sent[ch])) = sent[ch]
  /\ IsErrorTo(sent'[ch][Len(sent'[ch])], id, 400)
  /\ PacketMessage(sent'[ch][Len(sent'[ch])]) = message

\* C3: an init packet for an id with no entry registers a new stream under
\* it and sends nothing; a chunk for a registered id is pushed into the
\* stream registered under it and sends nothing; an init packet for a
\* registered id sends a 400 error addressed to the id and leaves the entry;
\* when the handling of an 'end' packet is over the id has no entry; and a
\* chunk for an id with no entry sends a 400 'not initialized' error
\* addressed to the id.
C3_StreamLifecycle ==
  [][\A ch \in StreamChannels, id \in StreamIds :
       /\ StreamHandler(ch, [streamId |-> id] @@ InitFields) =>
            IF streams[ch][id] = 0
            THEN /\ streams'[ch][id] = Len(handles')
                 /\ Len(handles') = Len(handles) + 1
                 /\ handles'[Len(handles')].status = "active"
                 /\ sent' = sent
            ELSE /\ streams' = streams
                 /\ handles' = handles
                 /\ SentError(ch, id, Text("Stream is already initialized", <<"f">>))
       /\ Binary(ch, [t |-> "chunk", streamId |-> id]) =>
            IF streams[ch][id] # 0
            THEN /\ handles'[streams[ch][id]].chunks = handles[streams[ch][id]].chunks + 1
                 /\ streams' = streams
                 /\ sent' = sent
            ELSE /\ handles' = handles
                 /\ streams' = streams
                 /\ SentError(ch, id, Text("Stream is not initialized", NatToChars(id)))
       /\ \A c \in BagToSet(closing) :
            (c.ch = ch /\ c.streamId = id /\ c.how = "close" /\ StreamHandled(c)) =>
              streams'[ch][id] = 0]_vars

\* C3 witness: a stream was registered, took a chunk and was closed by an
\* 'end' packet; its id has no entry; a second init packet and a later chunk
\* were each answered by an error.
C3_Witness ==
  \E ch \in StreamChannels, id \in StreamIds :
    /\ streams[ch][id] = 0
    /\ \E h \in 1..Len(handles) :
         /\ handles[h].streamId = id
         /\ handles[h].chunks = 1
         /\ handles[h].status = "closed"
    /\ Len(sent[ch]) = 2
    /\ PacketMessage(sent[ch][1]) = Text("Stream is already initialized", <<"f">>)
    /\ PacketMessage(sent[ch][2]) = Text("Stream is not initialized", NatToChars(id))

(***************************************************************************)
(* Text frames (channel.js:128-148).                                       *)
(***************************************************************************)
\* The text frames a peer sends: the empty packet, an empty object written
\* with a space, two texts that are no JSON, and packets of several kinds.
fEmpty == "{}"
fSpaced == "{ }"
fCut == "{\"call\":1,"
fWord == "ping"
fPing == "{\"ping\":1}"
fCallback == "{\"callback\":1,\"result\":{}}"
fCall == "{\"call\":1,\"auth/signIn\":{}}"
fEnd == "{\"stream\":1,\"status\":\"end\"}"
Frames == {fEmpty, fSpaced, fCut, fWord, fPing, fCallback, fCall, fEnd}

\* metautil.jsonParse(msg): the value of a JSON text, null for any other
\* text.
jsonParse(msg) ==
  CASE msg \in {fEmpty, fSpaced} -> Obj(<<>>)
    [] msg = fPing -> Obj(<<Entry(<<"p", "i", "n", "g">>, Num(1))>>)
    [] msg = fCallback -> Obj(<<Entry(kCallback, Num(1)), Entry(kResult, Obj(<<>>))>>)
    [] msg = fCall ->
         Obj(<<Entry(kCall, Num(1)),
               Entry(<<"a", "u", "t", "h", "/", "s", "i", "g", "n", "I", "n">>, Obj(<<>>))>>)
    [] msg = fEnd -> Obj(<<Entry(kStream, Num(1)), Entry(kStatus, Str(kEnd))>>)
    [] OTHER -> Null

\* this[`${type}Handler`]: the two handlers Channel has.
Handlers == {kCall, kStream}

\* What message() did: the packets sent, the handler called, and how it
\* ended (value: what it returned or threw; rejected: the promise of an
\* async handler was rejected and nobody awaits it).
Messaged(out, handler, value, rejected) ==
  [out |-> out, handler |-> handler, value |-> value, rejected |-> rejected]

\* Channel.message(msg).  The handler is called as handler(data), without
\* the channel: inside it `this` is undefined, so callHandler throws a
\* TypeError at its first statement and the async streamHandler returns a
\* rejected promise.
message(msg) ==
  IF msg = fEmpty
  THEN Messaged(<<Sent(Text("{}", <<>>), Undef, NoCause)>>, "none", Undef, FALSE)
  ELSE LET packet == jsonParse(msg)
       IN IF ~Truthy(packet)
          THEN Messaged(<<error(Num(500), Undef,
                                NewError(Text("JSON parsing error", <<>>)), Undef)>>,
                        "none", Undef, FALSE)
          ELSE LET d == deserialize(packet.v)
               IN IF d = Null THEN Messaged(<<>>, "none", Thrown("TypeError"), FALSE)
                  ELSE IF d.t = "thrown" THEN Messaged(<<>>, "none", d, FALSE)
                  ELSE IF d.v.type \notin Handlers
                  THEN Messaged(<<>>, "none", Undef, FALSE)
                  ELSE IF d.v.type = kCall
                  THEN Messaged(<<>>, "callHandler", Thrown("TypeError"), FALSE)
                  ELSE Messaged(<<>>, "streamHandler", Undef, TRUE)

Message(ch, msg) ==
  LET r == message(msg)
  IN /\ SentCount + Len(r.out) <= MaxSent
     /\ sent' = [sent EXCEPT ![ch] = @ \o r.out]
     /\ ret' = [op |-> "message", ch |-> ch, msg |-> msg] @@ r
     /\ UNCHANGED <<sessions, heap, session, eventId, streamId, destroyed, closes,
                    created, streams, handles, closing, calls, reading>>

MessageNext == \E ch \in Channels, msg \in Frames : Message(ch, msg)

SpecMessage == Init /\ [][MessageNext]_vars

\* C11: a text frame that is no JSON makes the channel send one error
\* packet with code 500 whose message is 'JSON parsing error'; no handler is
\* called and the session and the streams of the channel stay as they were.
C11_ParseFailure ==
  [][\A ch \in Channels, msg \in Frames :
       (Message(ch, msg) /\ msg # fEmpty /\ jsonParse(msg) = Null) =>
         /\ Len(sent'[ch]) = Len(sent[ch]) + 1
         /\ Get(sent'[ch][Len(sent'[ch])].packet.v, kError).v.code = Num(500)
         /\ PacketMessage(sent'[ch][Len(sent'[ch])]) = Text("JSON parsing error", <<>>)
         /\ ret'.handler = "none"
         /\ session' = session
         /\ streams' = streams]_vars

(***************************************************************************)
(* Thrown failures.                                                        *)
(***************************************************************************)
\* The code the claim gives the error packet of a thrown failure.
ThrownCode(e) ==
  IF e.message = Text("Timeout reached", <<>>) THEN Num(408)
  ELSE IF e.code # Undef THEN e.code
  ELSE Num(500)

\* The packets { callback: id, result } a channel has sent.
CallbacksSent(ch, id) ==
  LET Is(e) == /\ e.packet.t = "object"
               /\ Get(e.packet.v, kCallback) = Num(id)
               /\ HasKey(e.packet.v, kResult)
  IN SelectSeq(sent[ch], Is)

\* C12: when proc.invoke() throws, the call is answered by an error packet
\* with its callId and with code 408 if the failure's message is 'Timeout
\* reached', else the failure's own code if it has one, else 500; and no
\* callback packet is sent for the call.
C12_ThrownCode ==
  \A x \in Made :
    LET call == calls[x[1]][x[2]]
    IN call.outcome.how = "throw" =>
         /\ OnlyError(x[1], x[2], ThrownCode(call.outcome.value).v)
         /\ CallbacksSent(x[1], x[2]) = <<>>

\* C12 witness: one call ended by a timeout and answered with 408, another
\* ended by a failure with its own code and answered with that code.
C12_Witness ==
  \E x, y \in Made :
    /\ calls[x[1]][x[2]].outcome.how = "throw"
    /\ calls[x[1]][x[2]].outcome.value.message = Text("Timeout reached", <<>>)
    /\ OnlyError(x[1], x[2], 408)
    /\ calls[y[1]][y[2]].outcome.how = "throw"
    /\ calls[y[1]][y[2]].outcome.value.code = Num(409)
    /\ OnlyError(y[1], y[2], 409)

(***************************************************************************)
(* The codec applied to any kind and any wire object (protocol.js:90,      *)
(* 124-129).                                                               *)
(***************************************************************************)
kPing == <<"p", "i", "n", "g">>
kUnknownKind == <<"u", "n", "k", "n", "o", "w", "n">>

\* Kinds serialize may be asked for besides the five it has.
OtherKinds == {kUnknownKind, kPing, <<>>, kToString, kProto}

\* Objects a peer may send: empty, of a kind the codec has, of none it has,
\* with the kind key after another key, and with an error field.
WireObjects ==
  {<<>>,
   <<Entry(kCallback, Num(1)), Entry(kResult, Obj(<<>>))>>,
   <<Entry(kStream, Num(1)), Entry(kStatus, Str(kEnd))>>,
   <<Entry(<<"i", "d">>, Num(7)), Entry(kError, Obj([message |-> Text("Not Found", <<>>),
                                                    code |-> Num(404)]))>>}
  \cup {<<Entry(k, v)>> : k \in {kPing, kUnknownKind, kToString, kProto},
                          v \in {Num(1), Num(2)}}
  \cup {<<Entry(k, Num(1)), Entry(kCall, Num(c))>> : k \in {kPing, kUnknownKind},
                                                    c \in CallIds}

InitWire ==
  /\ Constructed
  /\ \/ \E type \in Kinds : \E data \in FieldSets(type) :
          ret = [op |-> "input", type |-> type, data |-> data]
     \/ \E type \in OtherKinds, data \in Payloads :
          ret = [op |-> "input", type |-> type, data |-> data]
     \/ \E p \in WireObjects : ret = [op |-> "wire", packet |-> Obj(p)]

\* deserialize(packet) of an object received.
Decode ==
  /\ ret.op = "wire"
  /\ ret' = [op |-> "decode", packet |-> ret.packet,
             value |-> deserialize(ret.packet.v)]
  /\ UNCHANGED <<sessions, heap, session, eventId, streamId, destroyed, closes,
                 sent, created, streams, handles, closing, calls, reading>>

WireNext == Serialize \/ Deserialize \/ Decode

SpecWire == InitWire /\ [][WireNext]_vars

\* C13: deserialize of an object that is not empty, has no error field and
\* whose first key is none of call, callback, event, stream returns null,
\* and does not throw.
C13_UnknownKind ==
  (/\ ret.op = "decode"
   /\ ret.packet.v # <<>>
   /\ ~HasKey(ret.packet.v, kError)
   /\ FirstKey(ret.packet.v).v \notin {kCall, kCallback, kEvent, kStream})
    => ret.value = Null

\* C14: serialize of a kind that is none of the five returns null and does
\* not throw, and deserialize of the empty object returns null and does not
\* throw.
C14_NullResults ==
  /\ (ret.op = "serialize" /\ ret.type \notin Kinds) => ret.packet = Null
  /\ (ret.op = "decode" /\ ret.packet.v = <<>>) => ret.value = Null

(***************************************************************************)
(* Frames the codec gives no result for.                                   *)
(***************************************************************************)
\* The text is JSON, is not the empty packet byte for byte, and deserialize
\* returns null for its value.
DecodesToNull(msg) ==
  /\ msg # fEmpty
  /\ jsonParse(msg).t = "object"
  /\ deserialize(jsonParse(msg).v) = Null

\* C17: a text frame that is JSON and that deserialize gives null for makes
\* the channel send one error packet whose message is 'Packet structure
\* error'; message() throws nothing and the session and the streams of the
\* channel stay as they were.
C17_NullDecode ==
  [][\A ch \in Channels, msg \in Frames :
       (Message(ch, msg) /\ DecodesToNull(msg)) =>
         /\ ret'.value.t # "thrown"
         /\ Len(sent'[ch]) = Len(sent[ch]) + 1
         /\ HasKey(sent'[ch][Len(sent'[ch])].packet.v, kError)
         /\ PacketMessage(sent'[ch][Len(sent'[ch])]) = Text("Packet structure error", <<>>)
         /\ session' = session
         /\ streams' = streams]_vars

(***************************************************************************)
(* Call packets (channel.js:165-173, 291-301).  callHandler is modelled as *)
(* called on its channel.                                                  *)
(***************************************************************************)
\* The cookie of the channel's request: none, or a token.
NoCookie == "none"
Cookies == {NoCookie} \cup Tokens

\* The session store behind auth.readSession(token): it holds the data of
\* tokenB and of no other token.
NoData == [found |-> FALSE]
readSession(token) ==
  IF token = "tokenB" THEN [found |-> TRUE, accountId |-> Str(<<"u", "9">>)]
  ELSE NoData

\* resumeCookieSession() up to its await: the session restored from the
\* registry, or a read of the store begun.
resumeCookieSession(reg, hp, bound, ch, cookie) ==
  IF cookie = NoCookie
  THEN SessionState(reg, hp, bound, Undef) @@ [read |-> <<>>]
  ELSE LET r == restoreSession(reg, hp, bound, cookie)
       IN IF r.value = True THEN r @@ [read |-> <<>>]
          ELSE r @@ [read |-> <<[ch |-> ch, token |-> cookie]>>]

\* !callId || !iface || !method || !args
Invalid(callId, iface, method, args) ==
  ~Truthy(callId) \/ ~Truthy(iface) \/ ~Truthy(method) \/ ~Truthy(args)

CallArgs == {Obj(<<>>), Undef}

\* Channel.callHandler({ callId, iface, method, ver, args }) on a channel
\* whose request has this cookie: the resumption is started and not awaited,
\* the packet is validated, and rpc() runs up to its first await.
CallHandler(ch, c, method, args, cookie) ==
  LET s == resumeCookieSession(sessions, heap, session[ch], ch, cookie)
      r == rpcStart(calls[ch][c], c, method, s.session)
  IN /\ calls[ch][c].pc = "idle"
     /\ \A b \in 1..(c - 1) : calls[ch][b].pc # "idle"
     /\ CallCount < MaxCalls
     /\ BagCardinality(reading) + Len(s.read) <= MaxPending
     /\ session' = [session EXCEPT ![ch] = s.session]
     /\ reading' = reading (+) SetToBag({s.read[i] : i \in 1..Len(s.read)})
     /\ IF Invalid(Num(c), Str(<<"a", "u", "t", "h">>), Str(<<"m">>), args)
        THEN /\ calls' = [calls EXCEPT ![ch][c].pc = "invalid"]
             /\ sent' = [sent EXCEPT ![ch] =
                  Append(@, error(Num(400), Num(c),
                                  NewError(Text("Packet structure error", <<>>)), Undef))]
        ELSE /\ calls' = [calls EXCEPT ![ch][c] = r.call]
             /\ sent' = [sent EXCEPT ![ch] = @ \o r.out]
     /\ UNCHANGED <<sessions, heap, eventId, streamId, destroyed, closes, created,
                    streams, handles, closing, ret>>

\* The rest of resumeCookieSession once auth.readSession(token) has
\* answered: if (data) this.client.initializeSession(token, data).
ResumeLoaded(x) ==
  LET data == readSession(x.token)
      r == IF data.found
           THEN initializeSession(sessions, heap, session[x.ch], x.ch, x.token,
                                  data.accountId)
           ELSE SessionState(sessions, heap, session[x.ch], Undef)
  IN /\ data.found => Len(heap) < MaxSessions + MaxPending
     /\ reading' = reading (-) SetToBag({x})
     /\ sessions' = r.sessions
     /\ heap' = r.heap
     /\ session' = [session EXCEPT ![x.ch] = r.session]
     /\ UNCHANGED <<eventId, streamId, destroyed, closes, sent, created, streams,
                    handles, closing, calls, ret>>

CallNext ==
  \/ \E ch \in Channels, c \in CallIds, method \in Methods, args \in CallArgs,
        cookie \in Cookies : CallHandler(ch, c, method, args, cookie)
  \/ \E x \in BagToSet(reading) : ResumeLoaded(x)
  \/ \E ch \in Channels, c \in CallIds, entered \in BOOLEAN : Entered(ch, c, entered)
  \/ \E ch \in Channels, c \in CallIds, o \in Outcomes : Invoked(ch, c, o)

SpecCall == InitRpc /\ [][CallNext]_vars

\* The token of a cookie is known: the registry has it, or the store has.
Known(token) == sessions[token] # 0 \/ readSession(token).found

\* C15: a call packet for a procedure that is not public, on a channel with
\* no session and a cookie whose token the registry or the store knows, is
\* not refused with 403: the session is resumed before the access check, so
\* the call goes on to the gate with a context that has the session.
C15_ResumeBeforeCheck ==
  [][\A ch \in Channels, c \in CallIds, token \in Tokens :
       (/\ CallHandler(ch, c, "profile", Obj(<<>>), token)
        /\ session[ch] = 0
        /\ Known(token)) =>
         /\ sent' = sent
         /\ calls'[ch][c].pc = "enter"
         /\ calls'[ch][c].context.session # 0]_vars

(***************************************************************************)
(* One stream id closed more than once and registered again.               *)
(***************************************************************************)
\* One stream more and one waiting call more than the other streams
\* specification allows, on one stream id.
ReopenNext ==
  \/ \E ch \in StreamChannels, f \in StreamFields :
       StreamHandlerWithin(ch, [streamId |-> 1] @@ f, MaxHandles + 1, MaxPending + 1)
  \/ \E c \in BagToSet(closing) : StreamHandled(c)
  \/ \E ch \in StreamChannels : Binary(ch, [t |-> "chunk", streamId |-> 1])

SpecReopen == Init /\ [][ReopenNext]_vars

\* C16: whenever an entry leaves a channel's stream table, the close() or
\* terminate() of the stream that was registered under it has completed;
\* and a chunk for an id without entry is answered 'not initialized'.
C16_EvictAfterClose ==
  [][\A ch \in StreamChannels, id \in StreamIds :
       /\ (streams[ch][id] # 0 /\ streams'[ch][id] = 0) =>
            handles'[streams[ch][id]].status \in {"closed", "terminated"}
       /\ (Binary(ch, [t |-> "chunk", streamId |-> id]) /\ streams[ch][id] = 0) =>
            SentError(ch, id, Text("Stream is not initialized", NatToChars(id)))]_vars

(***************************************************************************)
(* Responses to calls outstanding together.                                *)
(***************************************************************************)
\* Call packets on channels whose requests carry no cookie.
PlainCallNext ==
  \/ \E ch \in Channels, c \in CallIds, method \in Methods, args \in CallArgs :
       CallHandler(ch, c, method, args, NoCookie)
  \/ \E ch \in Channels, c \in CallIds, entered \in BOOLEAN : Entered(ch, c, entered)
  \/ \E ch \in Channels, c \in CallIds, o \in Outcomes : Invoked(ch, c, o)

SpecPlainCall == InitRpc /\ [][PlainCallNext]_vars

\* The calls of a channel that rpc() was called for and has returned from,
\* and the packets callHandler refused.
Returned(ch) == {c \in CallIds : calls[ch][c].pc = "done"}
Refused(ch) == {c \in CallIds : calls[ch][c].pc = "invalid"}

\* A callback packet or an error packet, not both.
IsResponse(e) ==
  /\ e.packet.t = "object"
  /\ HasKey(e.packet.v, kCallback)
  /\ HasKey(e.packet.v, kResult) # HasKey(e.packet.v, kError)

\* C18: a call that passed validation and whose rpc() has returned has one
\* response on its channel, a callback packet or an error packet with its
\* callId; a call still waiting has none; and the channel has sent nothing
\* else, whatever the order in which the calls end.
C18_OneResponse ==
  \A ch \in Channels :
    /\ \A c \in Returned(ch) :
         Len(Responses(ch, c)) = 1 /\ IsResponse(Responses(ch, c)[1])
    /\ \A c \in CallIds :
         calls[ch][c].pc \in {"idle", "enter", "invoke"} => Responses(ch, c) = <<>>
    /\ Len(sent[ch]) = Cardinality(Returned(ch)) + Cardinality(Refused(ch))

\* C18 witness: two calls were waiting for their procedures together on one
\* channel and the second was answered first, each under its own callId.
C18_Witness ==
  \E ch \in Channels :
    /\ calls[ch][1].pc = "done" /\ calls[ch][1].invoked = 1
    /\ calls[ch][2].pc = "done" /\ calls[ch][2].invoked = 1
    /\ Len(sent[ch]) = 2
    /\ Get(sent[ch][1].packet.v, kCallback) = Num(2)
    /\ Get(sent[ch][2].packet.v, kCallback) = Num(1)
    /\ HasKey(sent[ch][1].packet.v, kResult)

(***************************************************************************)
(* The registry shared by the channels.                                    *)
(***************************************************************************)
\* C19: every channel that has not been destroyed and is bound to a session
\* finds that session in the registry under the session's token, whatever
\* the other channels have done.
C19_RegistryHoldsBound ==
  \A ch \in Channels :
    (~destroyed[ch] /\ session[ch] # 0) => sessions[BoundToken(ch)] = session[ch]

(***************************************************************************)
(* The context of an invocation.                                           *)
(***************************************************************************)
\* C20: the context a procedure is invoked with agrees with itself: its
\* accountId is that of the state of its session when it has a session, and
\* is absent when it has none, also when the channel's session changes while
\* the call waits at the gate.
C20_ContextAgrees ==
  \A x \in Made :
    LET call == calls[x[1]][x[2]]
    IN call.invoked > 0 =>
         IF call.context.session # 0
         THEN call.context.accountId = heap[call.context.session].accountId
         ELSE call.context.accountId = Undef

=============================================================================
